---- MODULE Spec2Model ----
(***************************************************************************)
(* A model of the zrnt-ssz codec: the scoped DecodingReader, the encoding  *)
(* buffer, the variable-size series encoder/decoder, the basic list and    *)
(* the container handler.  Values are modelled by their contents (a basic  *)
(* value is a number, a list or vector a sequence of element values, a     *)
(* container the sequence of its field values); pointers into host memory  *)
(* are replaced by the value they point to.  Handlers are named by an id   *)
(* and looked up in Handler.                                               *)
(***************************************************************************)
EXTENDS Integers, Sequences, FiniteSets, TLC

VARIABLES
    op,       \* name of the handler called last ("init" before any call)
    inp,      \* the arguments of that call
    out,      \* what the call returned
    readers,  \* stack of live DecodingReaders, innermost scope last
    stream,   \* bytes left in the io.Reader shared by all the scopes
    last      \* outcome of the last reader operation

vars == <<op, inp, out, readers, stream, last>>

(***************************************************************************)
(* Bounds of the model.                                                    *)
(***************************************************************************)
\* longest basic list (number of scalars) drawn as a value
MaxListLen == 2
\* most elements of a variable-size series drawn as a value
MaxSeriesLen == 2
\* most offset words put in front of a drawn input
MaxWords == 2
\* most payload bytes drawn behind the offset words of an input
MaxTail == 2
\* most readers alive at a time, the top-level one included
MaxReaders == 3
\* most reader operations in a row
MaxSteps == 5
\* most bytes the io.Reader under the readers holds
MaxInput == 2

\* largest value of a reader's uint64 counters.  TLC's integers have 32 bits,
\* so the counters are scaled to 16 bits; they wrap around as uint64 does.
MaxUint == 65535

BYTES_PER_LENGTH_OFFSET == 4

(***************************************************************************)
(* Little-endian scalars.                                                  *)
(***************************************************************************)
RECURSIVE Pow256(_)
Pow256(k) == IF k = 0 THEN 1 ELSE 256 * Pow256(k - 1)

\* binary.LittleEndian.PutUintN(v): the n low bytes of v, least significant first
PutUint(v, n) == [j \in 1..n |-> (v \div Pow256(j - 1)) % 256]

\* binary.LittleEndian.UintN(b)
RECURSIVE Uint(_)
Uint(b) == IF b = <<>> THEN 0 ELSE b[1] + 256 * Uint(Tail(b))

RECURSIVE Flatten(_)
Flatten(ss) == IF ss = <<>> THEN <<>> ELSE Head(ss) \o Flatten(Tail(ss))

SeqsUpTo(S, n) == UNION {[1..k -> S] : k \in 0..n}

\* a local variable: F with its parameter bound to the value v
Bind(v, F(_)) == F(v)

(***************************************************************************)
(* dec.DecodingReader.  input is what the underlying io.Reader still       *)
(* holds; a scoped reader wraps the same io.Reader, so the bytes a child   *)
(* consumes are gone for the parent too (SharedInput).                     *)
(***************************************************************************)
NewDecodingReader(input) ==
    [input |-> input, i |-> 0, max |-> MaxUint, fuzzMode |-> FALSE]

\* the reader Scope returns: a fresh index, the scope as max, fuzz mode off
NewScoped(input, count) ==
    [input |-> input, i |-> 0, max |-> count, fuzzMode |-> FALSE]

GetBytesSpan(dr) == dr.max - dr.i

Scope(dr, count) ==
    IF GetBytesSpan(dr) < count
    THEN [err |-> TRUE, dr |-> dr]
    ELSE [err |-> FALSE, dr |-> NewScoped(dr.input, count)]

EnableFuzzMode(dr) == [dr EXCEPT !.fuzzMode = TRUE]

\* dr.i += other.i in uint64 arithmetic
UpdateIndexFromScoped(dr, other) ==
    [dr EXCEPT !.i = (@ + other.i) % (MaxUint + 1)]

\* the parent's io.Reader after a child scope has read from it
SharedInput(dr, other) == [dr EXCEPT !.input = other.input]

\* v := dr.i + x in uint64 arithmetic
checkedIndexUpdate(dr, x) ==
    IF (dr.i + x) % (MaxUint + 1) > dr.max
    THEN [err |-> TRUE, dr |-> dr]
    ELSE [err |-> FALSE, dr |-> [dr EXCEPT !.i = (dr.i + x) % (MaxUint + 1)]]

\* Read(p) with len(p) = n: the scope check first, then the bytes; a short
\* input fails after the index has moved.
Read(dr, n) ==
    IF n = 0 THEN [err |-> FALSE, dr |-> dr, data |-> <<>>]
    ELSE Bind(checkedIndexUpdate(dr, n), LAMBDA c :
         IF c.err THEN [err |-> TRUE, dr |-> c.dr, data |-> <<>>]
         ELSE IF Len(dr.input) < n
              THEN [err |-> TRUE, dr |-> [c.dr EXCEPT !.input = <<>>],
                    data |-> dr.input]
              ELSE [err |-> FALSE,
                    dr |-> [c.dr EXCEPT !.input = SubSeq(dr.input, n + 1, Len(dr.input))],
                    data |-> SubSeq(dr.input, 1, n)])

\* Skip(count): the scope check, then count bytes are discarded by
\* io.CopyN(ioutil.Discard, input, int64(count)); a count that is negative as
\* an int64 discards nothing and is no error
Skip(dr, count) ==
    Bind(checkedIndexUpdate(dr, count), LAMBDA c :
    IF c.err THEN [err |-> TRUE, dr |-> c.dr]
    ELSE IF count > MaxUint \div 2 THEN [err |-> FALSE, dr |-> c.dr]
    ELSE IF Len(dr.input) < count
         THEN [err |-> TRUE, dr |-> [c.dr EXCEPT !.input = <<>>]]
         ELSE [err |-> FALSE,
               dr |-> [c.dr EXCEPT !.input = SubSeq(dr.input, count + 1, Len(dr.input))]])

ReadUint32(dr) ==
    Bind(Read(dr, 4), LAMBDA r : [err |-> r.err, dr |-> r.dr, v |-> Uint(r.data)])

ReadOffset(dr) == ReadUint32(dr)

(***************************************************************************)
(* The handler trees of the model.  kind is the SSZ kind; a basic handler  *)
(* has its byte length, a series its element handler, a container the ids  *)
(* of its fields in declaration order.  Every list and vector of the table *)
(* has variable-size elements (the series of fixed-size elements go        *)
(* through EncodeFixedSeries and DecodeFixedSlice, which are not among the *)
(* sources).                                                               *)
(***************************************************************************)
Handler(id) ==
    CASE id = "u8"    -> [kind |-> "basic", len |-> 1, isBool |-> FALSE]
      [] id = "u16"   -> [kind |-> "basic", len |-> 2, isBool |-> FALSE]
      [] id = "u32"   -> [kind |-> "basic", len |-> 4, isBool |-> FALSE]
      [] id = "bool"  -> [kind |-> "basic", len |-> 1, isBool |-> TRUE]
      [] id = "Lu8"   -> [kind |-> "blist", elem |-> "u8"]
      [] id = "Lu16"  -> [kind |-> "blist", elem |-> "u16"]
      [] id = "Lbool" -> [kind |-> "blist", elem |-> "bool"]
      [] id = "LL"    -> [kind |-> "list", elem |-> "Lbool"]
      [] id = "VL"    -> [kind |-> "vector", elem |-> "Lbool", length |-> 2]
      [] id = "CE"    -> [kind |-> "container", fields |-> <<>>]
      [] id = "CF"    -> [kind |-> "container", fields |-> <<"u8", "u16">>]
      [] id = "CB"    -> [kind |-> "container", fields |-> <<"u8", "bool">>]
      [] id = "CU"    -> [kind |-> "container", fields |-> <<"u16">>]
      [] id = "C3"    -> [kind |-> "container", fields |-> <<"u8", "u16", "bool">>]
      [] id = "CQ"    -> [kind |-> "container",
                          fields |-> <<"u8", "u8", "u8", "u8", "u8">>]
      [] id = "CC"    -> [kind |-> "container", fields |-> <<"CF", "CB">>]
      [] id = "CS"    -> [kind |-> "container", fields |-> <<"u32", "u32", "u32">>]
      [] id = "CV"    -> [kind |-> "container", fields |-> <<"u32", "Lu8">>]
      [] id = "CI"    -> [kind |-> "container", fields |-> <<"u16", "Lu16">>]
      [] id = "CN"    -> [kind |-> "container", fields |-> <<"CI", "u8">>]
      [] id = "C2"    -> [kind |-> "container", fields |-> <<"Lu8", "u8", "Lbool">>]
      [] id = "CX"    -> [kind |-> "container", fields |-> <<"CF", "Lu8", "bool">>]
      [] id = "LV"    -> [kind |-> "list", elem |-> "CV"]
      [] id = "CL"    -> [kind |-> "container", fields |-> <<"u8", "LV">>]
      [] id = "CD"    -> [kind |-> "container", fields |-> <<"CN", "CF", "Lu8">>]

\* the limit a list handler is registered with
Limit(id) == IF Handler(id).kind = "list" THEN MaxSeriesLen ELSE MaxListLen

RECURSIVE Info(_), ContainerLens(_, _, _)

\* the loop of NewSSZContainer without the check of the fixed-size fields
AddFieldUnchecked(res, f) ==
    [res EXCEPT
       !.fixedLen = @ + (IF f.isFixed THEN f.fixedLen ELSE BYTES_PER_LENGTH_OFFSET),
       !.minLen = @ + (IF f.isFixed THEN f.fixedLen
                       ELSE BYTES_PER_LENGTH_OFFSET + f.minLen),
       !.maxLen = @ + (IF f.isFixed THEN f.fixedLen
                       ELSE BYTES_PER_LENGTH_OFFSET + f.maxLen),
       !.offsetCount = @ + (IF f.isFixed THEN 0 ELSE 1),
       !.fuzzMinLen = @ + f.fuzzMinLen,
       !.fuzzMaxLen = @ + f.fuzzMaxLen]

\* One round of the second loop of NewSSZContainer: the sums with the field
\* whose handler answers f added; err when the field is fixed-size and its
\* min or max length differs from its fixed length.
AddField(res, f) ==
    IF f.isFixed /\ (f.fixedLen # f.minLen \/ f.fixedLen # f.maxLen)
    THEN [res EXCEPT !.err = TRUE]
    ELSE [res EXCEPT
            !.fixedLen = @ + (IF f.isFixed THEN f.fixedLen ELSE BYTES_PER_LENGTH_OFFSET),
            !.minLen = @ + (IF f.isFixed THEN f.fixedLen
                            ELSE BYTES_PER_LENGTH_OFFSET + f.minLen),
            !.maxLen = @ + (IF f.isFixed THEN f.fixedLen
                            ELSE BYTES_PER_LENGTH_OFFSET + f.maxLen),
            !.offsetCount = @ + (IF f.isFixed THEN 0 ELSE 1),
            !.fuzzMinLen = @ + f.fuzzMinLen,
            !.fuzzMaxLen = @ + f.fuzzMaxLen]

\* the second loop of NewSSZContainer from field k on, then isFixedLen;
\* answers[k] is what the handler of field k answers
ContainerLens(answers, k, res) ==
    IF res.err THEN res
    ELSE IF k > Len(answers) THEN [res EXCEPT !.isFixedLen = res.offsetCount = 0]
    ELSE ContainerLens(answers, k + 1, AddField(res, answers[k]))

\* NewSSZContainer for fields whose handlers answer as given
NewSSZContainerOf(fields, answers) ==
    ContainerLens(answers, 1,
        [Fields |-> fields, err |-> FALSE, isFixedLen |-> FALSE, fixedLen |-> 0,
         minLen |-> 0, maxLen |-> 0, offsetCount |-> 0, fuzzMinLen |-> 0,
         fuzzMaxLen |-> 0])

NewSSZContainer(fields) ==
    NewSSZContainerOf(fields, [k \in 1..Len(fields) |-> Info(fields[k])])

\* what a series handler answers, e being the answers of its element handler
ListInfo(id, e) ==
    [isFixed |-> FALSE, fixedLen |-> 0, minLen |-> 0,
     maxLen |-> Limit(id) * (IF e.isFixed THEN e.fixedLen
                             ELSE BYTES_PER_LENGTH_OFFSET + e.maxLen),
     fuzzMinLen |-> 0,
     fuzzMaxLen |-> Limit(id) * (IF e.isFixed THEN e.fixedLen
                                 ELSE BYTES_PER_LENGTH_OFFSET + e.maxLen)]

VectorInfo(length, e) ==
    [isFixed |-> e.isFixed, fixedLen |-> e.fixedLen * length,
     minLen |-> (BYTES_PER_LENGTH_OFFSET + e.minLen) * length,
     maxLen |-> (BYTES_PER_LENGTH_OFFSET + e.maxLen) * length,
     fuzzMinLen |-> (BYTES_PER_LENGTH_OFFSET + e.minLen) * length,
     fuzzMaxLen |-> (BYTES_PER_LENGTH_OFFSET + e.maxLen) * length]

ContainerInfo(c) ==
    [isFixed |-> c.isFixedLen, fixedLen |-> c.fixedLen, minLen |-> c.minLen,
     maxLen |-> c.maxLen, fuzzMinLen |-> c.fuzzMinLen, fuzzMaxLen |-> c.fuzzMaxLen]

\* What a handler answers to IsFixed, FixedLen, MinLen, MaxLen, FuzzMinLen
\* and FuzzMaxLen.  A list answers FixedLen with 0; the fuzzing lengths of
\* the handlers that are not containers are their minimum and maximum.
Info(id) ==
    LET h == Handler(id) IN
    CASE h.kind = "basic" ->
            [isFixed |-> TRUE, fixedLen |-> h.len, minLen |-> h.len,
             maxLen |-> h.len, fuzzMinLen |-> h.len, fuzzMaxLen |-> h.len]
      [] h.kind \in {"blist", "list"} -> ListInfo(id, Info(h.elem))
      [] h.kind = "vector" -> VectorInfo(h.length, Info(h.elem))
      [] h.kind = "container" -> ContainerInfo(NewSSZContainer(h.fields))

IsFixed(id) == Info(id).isFixed
FixedLen(id) == Info(id).fixedLen
FuzzMinLen(id) == Info(id).fuzzMinLen

(***************************************************************************)
(* The values drawn for a handler.                                         *)
(***************************************************************************)
RECURSIVE Values(_), FieldValues(_, _)

BasicValues(id) ==
    CASE id = "u8" -> {7, 8}
      [] id = "u16" -> {1, 300}
      [] id = "u32" -> {42}
      [] id = "bool" -> {0, 1}

\* every sequence of field values of the fields from k on
FieldValues(fields, k) ==
    IF k > Len(fields) THEN {<<>>}
    ELSE {<<v>> \o rest : v \in Values(fields[k]), rest \in FieldValues(fields, k + 1)}

Values(id) ==
    LET h == Handler(id) IN
    CASE h.kind = "basic" -> BasicValues(id)
      [] h.kind = "blist" -> SeqsUpTo(BasicValues(h.elem), MaxListLen)
      [] h.kind = "list" -> SeqsUpTo(Values(h.elem), MaxSeriesLen)
      [] h.kind = "vector" -> [1..h.length -> Values(h.elem)]
      [] h.kind = "container" -> FieldValues(h.fields, 1)

(***************************************************************************)
(* enc: the encoding buffer.  buffer is the main stream, forward the       *)
(* queue of variable payloads waiting to be appended to it.                *)
(***************************************************************************)
\* log is the history of the calls made on the buffer and on the buffers
\* queued into it: the containers entered and left, the temporary buffers
\* taken and queued, the flushes; it has no part in the encoding.
GetPooledBuffer == [buffer |-> <<>>, forward |-> <<>>, log |-> <<>>]

\* an entry of the log: who (a handler id or "") did what, with the lengths
\* of the main stream and of the queue at that time
Logged(eb, ev, id) ==
    [eb EXCEPT !.log = Append(@, [ev |-> ev, id |-> id, buf |-> Len(eb.buffer),
                                  fwd |-> Len(eb.forward)])]

Write(eb, data) == [eb EXCEPT !.buffer = @ \o data]

\* EncodingBuffer.WriteOffset(fixedLen): the offset of the next payload is the
\* fixed length plus what is already queued
WriteOffset(eb, fixedLen) ==
    Write(eb, PutUint(fixedLen + Len(eb.forward), BYTES_PER_LENGTH_OFFSET))

\* EncodingBuffer.WriteForward(temp): queue the bytes of a temporary buffer
WriteForward(eb, temp) ==
    [Logged([eb EXCEPT !.log = Append(@, [ev |-> "GetPooledBuffer", id |-> "",
                                          buf |-> 0, fwd |-> 0]) \o temp.log],
            "WriteForward", "")
       EXCEPT !.forward = @ \o temp.buffer]

FlushForward(eb) ==
    [Logged(eb, "FlushForward", "") EXCEPT !.buffer = eb.buffer \o eb.forward,
                                           !.forward = <<>>]

\* EncodingWriter.WriteOffset(prevOffset, prevSize): writes prevOffset + prevSize
\* and returns it
WriterWriteOffset(eb, prevOffset, prevSize) ==
    [eb |-> Write(eb, PutUint(prevOffset + prevSize, BYTES_PER_LENGTH_OFFSET)),
     offset |-> prevOffset + prevSize]

(***************************************************************************)
(* SizeOf and Encode.                                                      *)
(***************************************************************************)
RECURSIVE SizeOf(_, _), SeriesSize(_, _, _), ContainerSizeOf(_, _, _, _)
RECURSIVE Encode(_, _, _), WriteOffsets(_, _, _, _, _, _), WriteContents(_, _, _, _)
RECURSIVE ContainerEncodeFields(_, _, _, _)

\* the scalars of a basic list as they lie in memory on a little-endian host
PackedBytes(vs, elemLen) == Flatten([j \in 1..Len(vs) |-> PutUint(vs[j], elemLen)])

\* sum of SizeOf over the elements of a series from element k on
SeriesSize(elem, vs, k) ==
    IF k > Len(vs) THEN 0 ELSE SizeOf(elem, vs[k]) + SeriesSize(elem, vs, k + 1)

\* SSZContainer.SizeOf adding the size of every field, fixed or not
RECURSIVE ContainerSizeOfEveryField(_, _, _, _)
ContainerSizeOfEveryField(fields, v, k, acc) ==
    IF k > Len(fields) THEN acc
    ELSE ContainerSizeOfEveryField(fields, v, k + 1, acc + SizeOf(fields[k], v[k]))

\* the loop of SSZContainer.SizeOf from field k on
ContainerSizeOf(fields, v, k, acc) ==
    IF k > Len(fields) THEN acc
    ELSE IF ~IsFixed(fields[k])
         THEN ContainerSizeOf(fields, v, k + 1, acc + SizeOf(fields[k], v[k]))
         ELSE ContainerSizeOf(fields, v, k + 1, acc)

SSZContainerSizeOf(id, v) ==
    Bind(NewSSZContainer(Handler(id).fields), LAMBDA c :
        ContainerSizeOf(c.Fields, v, 1, c.fixedLen))

SizeOf(id, v) ==
    LET h == Handler(id) IN
    CASE h.kind = "basic" -> h.len
      [] h.kind = "blist" -> Len(v) * FixedLen(h.elem)
      [] h.kind \in {"list", "vector"} ->
            Len(v) * BYTES_PER_LENGTH_OFFSET + SeriesSize(h.elem, v, 1)
      [] h.kind = "container" -> SSZContainerSizeOf(id, v)

\* SSZBasicList.Encode on a little-endian host: the memory of the slice is
\* written as it is
SSZBasicListEncode(id, eb, v) ==
    Write(eb, PackedBytes(v, FixedLen(Handler(id).elem)))

\* the first loop of EncodeVarSeries: every offset
WriteOffsets(elem, vs, eb, k, prevOffset, prevSize) ==
    IF k > Len(vs) THEN eb
    ELSE Bind(WriterWriteOffset(eb, prevOffset, prevSize), LAMBDA w :
             WriteOffsets(elem, vs, w.eb, k + 1, w.offset, SizeOf(elem, vs[k])))

\* the second loop of EncodeVarSeries: the contents the offsets refer to
WriteContents(elem, vs, eb, k) ==
    IF k > Len(vs) THEN eb
    ELSE WriteContents(elem, vs, Encode(elem, eb, vs[k]), k + 1)

\* EncodeVarSeries with the offsets counted from the end of the offset table
\* instead of from the start of the series
EncodeVarSeriesRelative(elem, length, eb, vs) ==
    WriteContents(elem, vs, WriteOffsets(elem, vs, eb, 1, 0, 0), 1)

EncodeVarSeries(elem, length, eb, vs) ==
    WriteContents(elem, vs,
        WriteOffsets(elem, vs, eb, 1, BYTES_PER_LENGTH_OFFSET * length, 0), 1)

\* SSZContainer.Encode queueing the payload before it writes the offset
RECURSIVE ContainerEncodeFieldsLate(_, _, _, _)
ContainerEncodeFieldsLate(c, eb, v, k) ==
    IF k > Len(c.Fields) THEN eb
    ELSE IF IsFixed(c.Fields[k])
         THEN ContainerEncodeFieldsLate(c, Encode(c.Fields[k], eb, v[k]), v, k + 1)
         ELSE ContainerEncodeFieldsLate(c,
                  WriteOffset(WriteForward(eb, Encode(c.Fields[k], GetPooledBuffer, v[k])),
                              c.fixedLen),
                  v, k + 1)

\* the loop of SSZContainer.Encode from field k on
ContainerEncodeFields(c, eb, v, k) ==
    IF k > Len(c.Fields) THEN eb
    ELSE IF IsFixed(c.Fields[k])
         THEN ContainerEncodeFields(c, Encode(c.Fields[k], eb, v[k]), v, k + 1)
         ELSE ContainerEncodeFields(c,
                  WriteForward(WriteOffset(eb, c.fixedLen),
                               Encode(c.Fields[k], GetPooledBuffer, v[k])),
                  v, k + 1)

\* SSZContainer.Encode flushing whether the container is fixed-size or not
ContainerEncodeAlwaysFlush(id, eb, v) ==
    Bind(NewSSZContainer(Handler(id).fields), LAMBDA c :
        Logged(FlushForward(ContainerEncodeFields(c, Logged(eb, "Encode", id), v, 1)),
               "return", id))

\* SSZContainer.Encode: the fields, then the flush of a variable-size container
ContainerEncode(id, eb, v) ==
    Bind(NewSSZContainer(Handler(id).fields), LAMBDA c :
        Logged(IF ~c.isFixedLen
               THEN FlushForward(ContainerEncodeFields(c, Logged(eb, "Encode", id), v, 1))
               ELSE ContainerEncodeFields(c, Logged(eb, "Encode", id), v, 1),
               "return", id))

Encode(id, eb, v) ==
    LET h == Handler(id) IN
    CASE h.kind = "basic" -> Write(eb, PutUint(v, h.len))
      [] h.kind = "blist" -> SSZBasicListEncode(id, eb, v)
      [] h.kind \in {"list", "vector"} -> EncodeVarSeries(h.elem, Len(v), eb, v)
      [] h.kind = "container" -> ContainerEncode(id, eb, v)

\* the bytes of a value encoded into a fresh buffer
EncodeBytes(id, v) == Encode(id, GetPooledBuffer, v).buffer

(***************************************************************************)
(* Decode.  A decoder returns err, why (which error), the reader as the    *)
(* call left it and the decoded value.  When the error came out of the     *)
(* decode of a child scope, at is the index the reader had when that scope *)
(* was created and used the number of bytes the child had consumed.        *)
(***************************************************************************)
Ok(dr, val) ==
    [err |-> FALSE, why |-> "ok", dr |-> dr, val |-> val, at |-> -1, used |-> -1]

Fail(why, dr) ==
    [err |-> TRUE, why |-> why, dr |-> dr, val |-> <<>>, at |-> -1, used |-> -1]

FailElem(dr, at, child) ==
    [err |-> TRUE, why |-> "elem", dr |-> dr, val |-> <<>>, at |-> at,
     used |-> child.i]

\* what the offset readers return
Offsets(err, why, dr, offsets) ==
    [err |-> err, why |-> why, dr |-> dr, offsets |-> offsets]

RECURSIVE Decode(_, _)
RECURSIVE ReadOffsetsLoop(_, _, _, _)
RECURSIVE decodeVarSeriesLoop(_, _, _, _, _)
RECURSIVE decodeFixedLoop(_, _, _, _, _, _), decodeDynamicLoop(_, _, _, _, _, _)
RECURSIVE fuzzLoop(_, _, _, _, _)

\* the scalars of the packed little-endian bytes of a basic list
RECURSIVE Unpack(_, _)
Unpack(data, elemLen) ==
    IF Len(data) < elemLen \/ elemLen = 0 THEN <<>>
    ELSE <<Uint(SubSeq(data, 1, elemLen))>>
         \o Unpack(SubSeq(data, elemLen + 1, Len(data)), elemLen)

\* a basic value: its bytes little-endian; a bool is 0x00 or 0x01
BasicDecode(id, dr) ==
    Bind(Read(dr, Handler(id).len), LAMBDA r :
        IF r.err THEN Fail("read", r.dr)
        ELSE IF Handler(id).isBool /\ r.data[1] > 1 THEN Fail("bool", r.dr)
        ELSE Ok(r.dr, Uint(r.data)))

\* SSZBasicList.Decode reading the whole elements the scope holds and leaving
\* the bytes of an incomplete one
SSZBasicListDecodeWhole(id, dr) ==
    LET elem == Handler(Handler(id).elem)
        bytesLen == dr.max - dr.i
    IN Bind(Read(dr, bytesLen - (bytesLen % elem.len)), LAMBDA r :
            IF r.err THEN Fail("read", r.dr)
            ELSE IF elem.isBool /\ \E j \in 1..Len(r.data) : r.data[j] > 1
                 THEN Fail("bool", r.dr)
                 ELSE Ok(r.dr, Unpack(r.data, elem.len)))

\* SSZBasicList.Decode on a little-endian host; N = bytesLen / Length
\* elements are allocated and filled with the bytes read
SSZBasicListDecode(id, dr) ==
    LET elem == Handler(Handler(id).elem)
        bytesLen == dr.max - dr.i
    IN IF bytesLen % elem.len # 0 THEN Fail("length", dr)
       ELSE Bind(Read(dr, bytesLen), LAMBDA r :
            IF r.err THEN Fail("read", r.dr)
            ELSE IF elem.isBool /\ \E j \in 1..Len(r.data) : r.data[j] > 1
                 THEN Fail("bool", r.dr)
                 ELSE Ok(r.dr, Unpack(r.data, elem.len)))

\* the loop "add the remaining offsets" of ReadVarSeriesOffsets and
\* ReadVarSliceOffsets, for i = k .. length - 1
ReadOffsetsLoop(dr, offsets, k, length) ==
    IF k >= length THEN Offsets(FALSE, "ok", dr, offsets)
    ELSE Bind(ReadOffset(dr), LAMBDA r :
         IF r.err THEN Offsets(TRUE, "read", r.dr, <<>>)
         ELSE ReadOffsetsLoop(r.dr, Append(offsets, r.v), k + 1, length))

ReadVarSeriesOffsets(length, dr) ==
    IF length = 0 THEN Offsets(FALSE, "ok", dr, <<>>)
    ELSE Bind(ReadOffset(dr), LAMBDA first :
         IF first.err THEN Offsets(TRUE, "read", first.dr, <<>>)
         ELSE IF length # first.v \div BYTES_PER_LENGTH_OFFSET
         THEN Offsets(TRUE, "count", first.dr, <<>>)
         ELSE ReadOffsetsLoop(first.dr, <<first.v>>, 1, length))

\* ReadVarSliceOffsets without the comparison of the length with the limit
ReadVarSliceOffsetsNoLimit(minElemLen, bytesLen, limit, dr) ==
    IF bytesLen = 0 THEN Offsets(FALSE, "ok", dr, <<>>)
    ELSE IF dr.i # 0 THEN Offsets(TRUE, "start", dr, <<>>)
    ELSE Bind(ReadOffset(dr), LAMBDA first :
         IF first.err THEN Offsets(TRUE, "read", first.dr, <<>>)
         ELSE IF first.v > bytesLen \/ first.v % BYTES_PER_LENGTH_OFFSET # 0
         THEN Offsets(TRUE, "first", first.dr, <<>>)
         ELSE Bind(ReadOffsetsLoop(first.dr, <<first.v>>, 1,
                                   first.v \div BYTES_PER_LENGTH_OFFSET),
                   LAMBDA rest :
              IF rest.err THEN rest
              ELSE IF rest.dr.i # BYTES_PER_LENGTH_OFFSET
                                  * (first.v \div BYTES_PER_LENGTH_OFFSET)
              THEN Offsets(TRUE, "index", rest.dr, <<>>)
              ELSE rest))

ReadVarSliceOffsets(minElemLen, bytesLen, limit, dr) ==
    IF bytesLen = 0 THEN Offsets(FALSE, "ok", dr, <<>>)
    ELSE IF dr.i # 0 THEN Offsets(TRUE, "start", dr, <<>>)
    ELSE Bind(ReadOffset(dr), LAMBDA first :
         IF first.err THEN Offsets(TRUE, "read", first.dr, <<>>)
         ELSE IF first.v > bytesLen \/ first.v % BYTES_PER_LENGTH_OFFSET # 0
         THEN Offsets(TRUE, "first", first.dr, <<>>)
         ELSE IF first.v \div BYTES_PER_LENGTH_OFFSET > limit
         THEN Offsets(TRUE, "limit", first.dr, <<>>)
         ELSE IF minElemLen * (first.v \div BYTES_PER_LENGTH_OFFSET) > first.dr.max
         THEN Offsets(TRUE, "fit", first.dr, <<>>)
         ELSE Bind(ReadOffsetsLoop(first.dr, <<first.v>>, 1,
                                   first.v \div BYTES_PER_LENGTH_OFFSET),
                   LAMBDA rest :
              IF rest.err THEN rest
              ELSE IF rest.dr.i # BYTES_PER_LENGTH_OFFSET
                                  * (first.v \div BYTES_PER_LENGTH_OFFSET)
              THEN Offsets(TRUE, "index", rest.dr, <<>>)
              ELSE rest))

\* The scope of the element or field whose offset is offsets[k]: up to the
\* next offset, or to the end of the reader's scope for the last one.
\* A next offset below currentOffset is an error (-1).
ScopeOf(offsets, k, currentOffset, max) ==
    IF k + 1 <= Len(offsets)
    THEN IF offsets[k + 1] >= currentOffset THEN offsets[k + 1] - currentOffset
         ELSE -1
    ELSE max - currentOffset

\* the scoped decode moving the parent's index before it looks at the error
decodeScopedLeaky(dr, elem, scope) ==
    Bind(Scope(dr, scope), LAMBDA sc :
        IF sc.err THEN Fail("scope", dr)
        ELSE Bind(Decode(elem, sc.dr), LAMBDA r :
             IF r.err
             THEN FailElem(UpdateIndexFromScoped(SharedInput(dr, r.dr), r.dr), dr.i, r.dr)
             ELSE Ok(UpdateIndexFromScoped(SharedInput(dr, r.dr), r.dr), r.val)))

\* one element of decodeVarSeriesFromOffsets or one field of
\* decodeOffsetElem: the child scope, the decode in it, and the parent's index
\* moved by what the child read
decodeScoped(dr, elem, scope) ==
    Bind(Scope(dr, scope), LAMBDA sc :
        IF sc.err THEN Fail("scope", dr)
        ELSE Bind(Decode(elem, sc.dr), LAMBDA r :
             IF r.err THEN FailElem(SharedInput(dr, r.dr), dr.i, r.dr)
             ELSE Ok(UpdateIndexFromScoped(SharedInput(dr, r.dr), r.dr), r.val)))

\* decodeVarSeriesFromOffsets without the comparison of the index with the
\* offset of the element
RECURSIVE decodeVarSeriesLoopAnyOffset(_, _, _, _, _)
decodeVarSeriesLoopAnyOffset(elem, offsets, dr, k, vals) ==
    IF k > Len(offsets)
    THEN IF dr.i # dr.max THEN Fail("end", dr) ELSE Ok(dr, vals)
    ELSE IF ScopeOf(offsets, k, dr.i, dr.max) < 0 THEN Fail("decreasing", dr)
    ELSE Bind(decodeScoped(dr, elem, ScopeOf(offsets, k, dr.i, dr.max)), LAMBDA r :
         IF r.err THEN r
         ELSE decodeVarSeriesLoopAnyOffset(elem, offsets, r.dr, k + 1,
                                           Append(vals, r.val)))

\* the loop of decodeVarSeriesFromOffsets from element k on (k counts from 1),
\* then the check that the scope has been read to its end
decodeVarSeriesLoop(elem, offsets, dr, k, vals) ==
    IF k > Len(offsets)
    THEN IF dr.i # dr.max THEN Fail("end", dr) ELSE Ok(dr, vals)
    ELSE IF dr.i # offsets[k] THEN Fail("offset", dr)
    ELSE IF ScopeOf(offsets, k, dr.i, dr.max) < 0 THEN Fail("decreasing", dr)
    ELSE Bind(decodeScoped(dr, elem, ScopeOf(offsets, k, dr.i, dr.max)), LAMBDA r :
         IF r.err THEN r
         ELSE decodeVarSeriesLoop(elem, offsets, r.dr, k + 1, Append(vals, r.val)))

decodeVarSeriesFromOffsets(elem, offsets, dr) ==
    decodeVarSeriesLoop(elem, offsets, dr, 1, <<>>)

DecodeVarSeries(elem, length, dr) ==
    Bind(ReadVarSeriesOffsets(length, dr), LAMBDA o :
        IF o.err THEN Fail(o.why, o.dr)
        ELSE decodeVarSeriesFromOffsets(elem, o.offsets, o.dr))

\* the child scope without the room kept for what is still to be decoded
fuzzScopeWholeSpan(dr, lengthLeftOver) ==
    Bind(Scope(dr, GetBytesSpan(dr)), LAMBDA sc :
        [err |-> FALSE, why |-> "ok", dr |-> EnableFuzzMode(sc.dr)])

\* The child scope of one field or element in fuzz mode: the bytes left
\* but for lengthLeftOver, what the fields or elements after this one need
\* at least; fuzz mode is enabled on it.
fuzzScope(dr, lengthLeftOver) ==
    IF GetBytesSpan(dr) < lengthLeftOver
    THEN [err |-> TRUE, why |-> "budget", dr |-> dr]
    ELSE Bind(Scope(dr, GetBytesSpan(dr) - lengthLeftOver), LAMBDA sc :
         IF sc.err THEN [err |-> TRUE, why |-> "scope", dr |-> dr]
         ELSE [err |-> FALSE, why |-> "ok", dr |-> EnableFuzzMode(sc.dr)])

\* the loop of DecodeVarSeriesFuzzMode from element k on (k counts from 1);
\* lengthLeftOver is what the elements after this one need at least
RECURSIVE fuzzSeriesLoop(_, _, _, _, _)
fuzzSeriesLoop(elem, length, dr, k, vals) ==
    IF k > length THEN Ok(dr, vals)
    ELSE Bind(fuzzScope(dr, (length - k) * FuzzMinLen(elem)), LAMBDA sc :
         IF sc.err THEN Fail(sc.why, dr)
         ELSE Bind(Decode(elem, sc.dr), LAMBDA r :
              IF r.err THEN FailElem(SharedInput(dr, r.dr), dr.i, r.dr)
              ELSE fuzzSeriesLoop(elem, length,
                       UpdateIndexFromScoped(SharedInput(dr, r.dr), r.dr),
                       k + 1, Append(vals, r.val))))

DecodeVarSeriesFuzzMode(elem, length, dr) ==
    fuzzSeriesLoop(elem, length, dr, 1, <<>>)

\* the contents are decoded into a slice of len(offsets) elements
\* (alloc.MutateLenOrAllocNew)
DecodeVarSlice(elem, minElemLen, bytesLen, limit, dr) ==
    Bind(ReadVarSliceOffsets(minElemLen, bytesLen, limit, dr), LAMBDA o :
        IF o.err THEN Fail(o.why, o.dr)
        ELSE decodeVarSeriesFromOffsets(elem, o.offsets, o.dr))

(***************************************************************************)
(* SSZContainer.Decode.                                                    *)
(***************************************************************************)
\* decodeOffsetElem without the comparison of the index with the offset
decodeOffsetElemAnyOffset(dr, elem, expectedOffset, scope) ==
    decodeScoped(dr, elem, scope)

decodeOffsetElem(dr, elem, expectedOffset, scope) ==
    IF expectedOffset # dr.i THEN Fail("offset", dr)
    ELSE decodeScoped(dr, elem, scope)

\* the loop of decodeDynamicPart from field k on; i (from 1) is the place of
\* the field's offset in offsets
decodeDynamicLoop(c, dr, offsets, k, i, vals) ==
    IF k > Len(c.Fields) THEN Ok(dr, vals)
    ELSE IF IsFixed(c.Fields[k])
    THEN decodeDynamicLoop(c, dr, offsets, k + 1, i, vals)
    ELSE IF i + 1 <= Len(offsets) /\ offsets[i + 1] < offsets[i]
    THEN Fail("decreasing", dr)
    ELSE Bind(decodeOffsetElem(dr, c.Fields[k], offsets[i],
                               ScopeOf(offsets, i, offsets[i], dr.max)),
              LAMBDA r :
         IF r.err THEN r
         ELSE decodeDynamicLoop(c, r.dr, offsets, k + 1, i + 1,
                  [vals EXCEPT ![k] = r.val]))

decodeDynamicPart(c, dr, offsets, vals) ==
    decodeDynamicLoop(c, dr, offsets, 1, 1, vals)

\* what decodeFixedPart returns: the offsets collected and the fixed-size
\* fields decoded
FixedPart(err, why, dr, offsets, vals) ==
    [err |-> err, why |-> why, dr |-> dr, offsets |-> offsets, vals |-> vals]

\* the loop of decodeFixedPart from field k on, then the check of the pivot
\* index against startIndex + fixedLen
decodeFixedLoop(c, dr, k, fixedI, offsets, vals) ==
    IF k > Len(c.Fields)
    THEN FixedPart(FALSE, "ok", dr, offsets, vals)
    ELSE IF IsFixed(c.Fields[k])
    THEN Bind(Decode(c.Fields[k], dr), LAMBDA r :
         IF r.err THEN FixedPart(TRUE, r.why, r.dr, offsets, vals)
         ELSE IF r.dr.i # fixedI + FixedLen(c.Fields[k])
         THEN FixedPart(TRUE, "fixed", r.dr, offsets, vals)
         ELSE decodeFixedLoop(c, r.dr, k + 1, fixedI + FixedLen(c.Fields[k]),
                  offsets, [vals EXCEPT ![k] = r.val]))
    ELSE Bind(ReadOffset(dr), LAMBDA r :
         IF r.err THEN FixedPart(TRUE, "read", r.dr, offsets, vals)
         ELSE IF r.dr.i # fixedI + BYTES_PER_LENGTH_OFFSET
         THEN FixedPart(TRUE, "fixed", r.dr, offsets, vals)
         ELSE decodeFixedLoop(c, r.dr, k + 1, fixedI + BYTES_PER_LENGTH_OFFSET,
                  Append(offsets, r.v), vals))

decodeFixedPart(c, dr) ==
    Bind(decodeFixedLoop(c, dr, 1, dr.i, <<>>, [k \in 1..Len(c.Fields) |-> <<>>]),
         LAMBDA r :
        IF r.err THEN r
        ELSE IF r.dr.i # c.fixedLen + dr.i
        THEN FixedPart(TRUE, "pivot", r.dr, r.offsets, r.vals)
        ELSE r)

decodeVarSize(c, dr) ==
    Bind(decodeFixedPart(c, dr), LAMBDA r :
        IF r.err THEN Fail(r.why, r.dr)
        ELSE decodeDynamicPart(c, r.dr, r.offsets, r.vals))

\* One round of decodeVarSizeFuzzmode: left is lengthLeftOver after the
\* field's own need has been taken off.
fuzzField(dr, elem, left) ==
    Bind(fuzzScope(dr, left), LAMBDA sc :
        IF sc.err THEN Fail(sc.why, dr)
        ELSE Bind(Decode(elem, sc.dr), LAMBDA r :
             IF r.err THEN FailElem(SharedInput(dr, r.dr), dr.i, r.dr)
             ELSE Ok(UpdateIndexFromScoped(SharedInput(dr, r.dr), r.dr), r.val)))

\* the loop of decodeVarSizeFuzzmode from field k on
fuzzLoop(c, dr, k, lengthLeftOver, vals) ==
    IF k > Len(c.Fields) THEN Ok(dr, vals)
    ELSE Bind(fuzzField(dr, c.Fields[k], lengthLeftOver - FuzzMinLen(c.Fields[k])),
              LAMBDA r :
         IF r.err THEN r
         ELSE fuzzLoop(c, r.dr, k + 1, lengthLeftOver - FuzzMinLen(c.Fields[k]),
                  [vals EXCEPT ![k] = r.val]))

decodeVarSizeFuzzmode(c, dr) ==
    fuzzLoop(c, dr, 1, c.fuzzMinLen, [k \in 1..Len(c.Fields) |-> <<>>])

SSZContainerDecode(id, dr) ==
    IF dr.fuzzMode
    THEN decodeVarSizeFuzzmode(NewSSZContainer(Handler(id).fields), dr)
    ELSE decodeVarSize(NewSSZContainer(Handler(id).fields), dr)

\* SSZList.Decode, for variable-size elements
SSZListDecode(id, dr) ==
    DecodeVarSlice(Handler(id).elem, FixedLen(Handler(id).elem), dr.max - dr.i,
                   Limit(id), dr)

\* SSZVector.Decode, for variable-size elements
SSZVectorDecode(id, dr) ==
    DecodeVarSeries(Handler(id).elem, Handler(id).length, dr)

Decode(id, dr) ==
    LET h == Handler(id) IN
    CASE h.kind = "basic" -> BasicDecode(id, dr)
      [] h.kind = "blist" -> SSZBasicListDecode(id, dr)
      [] h.kind = "list" -> SSZListDecode(id, dr)
      [] h.kind = "vector" -> SSZVectorDecode(id, dr)
      [] h.kind = "container" -> SSZContainerDecode(id, dr)

\* a value decoded from a scope of exactly the given bytes
DecodeBytes(id, bytes) == Decode(id, NewScoped(bytes, Len(bytes)))

(***************************************************************************)
(* The calls.  A behaviour is one call of a handler on drawn arguments,    *)
(* or an encode followed by the decode of the bytes it produced.           *)
(***************************************************************************)
Init ==
    /\ op = "init"
    /\ inp = <<>>
    /\ out = <<>>
    /\ readers = <<>>
    /\ stream = <<>>
    /\ last = "none"

\* element handlers of the series that are encoded and decoded again
SeriesElems == {"Lu8", "Lbool", "CV"}
\* element handlers of the series decoded from drawn inputs
DrawnElems == {"Lbool", "Lu16"}
OffsetVals == {0, 4, 6, 8, 9, 10, 12, 13, 260}
TailBytes == {1, 7}

\* the bytes of an input: offset words, then payload bytes
InputBytes(words, tail) ==
    Flatten([j \in 1..Len(words) |-> PutUint(words[j], BYTES_PER_LENGTH_OFFSET)]) \o tail

CallEncodeVarSeries ==
    /\ op = "init"
    /\ \E elem \in SeriesElems :
         \E vs \in SeqsUpTo(Values(elem), MaxSeriesLen) :
            /\ op' = "EncodeVarSeries"
            /\ inp' = [elem |-> elem, vs |-> vs]
            /\ out' = [bytes |-> EncodeVarSeries(elem, Len(vs), GetPooledBuffer, vs).buffer]
    /\ UNCHANGED <<readers, stream, last>>

\* the bytes EncodeVarSeries produced, decoded as a list in a scope of
\* exactly their length
CallDecodeEncoded ==
    /\ op = "EncodeVarSeries"
    /\ \E limit \in {l \in (Len(inp.vs) - 1)..(Len(inp.vs) + 1) : l >= 0} :
         LET dr == NewScoped(out.bytes, Len(out.bytes)) IN
         /\ op' = "DecodeEncoded"
         /\ inp' = [elem |-> inp.elem, vs |-> inp.vs, bytes |-> out.bytes,
                    limit |-> limit]
         /\ out' = DecodeVarSlice(inp.elem, FixedLen(inp.elem), GetBytesSpan(dr),
                                  limit, dr)
    /\ UNCHANGED <<readers, stream, last>>

CallDecodeVarSlice ==
    /\ op = "init"
    /\ \E elem \in DrawnElems, limit \in {1, MaxWords} :
         \E words \in SeqsUpTo(OffsetVals, MaxWords), tail \in SeqsUpTo(TailBytes, MaxTail) :
            LET bytes == InputBytes(words, tail)
                dr == NewScoped(bytes, Len(bytes))
            IN /\ op' = "DecodeVarSlice"
               /\ inp' = [elem |-> elem, bytes |-> bytes, limit |-> limit]
               /\ out' = DecodeVarSlice(elem, FixedLen(elem), GetBytesSpan(dr), limit, dr)
    /\ UNCHANGED <<readers, stream, last>>

CallDecodeVarSeries ==
    /\ op = "init"
    /\ \E elem \in DrawnElems, length \in 0..MaxWords :
         \E words \in SeqsUpTo(OffsetVals, MaxWords), tail \in SeqsUpTo(TailBytes, MaxTail) :
            LET bytes == InputBytes(words, tail)
                dr == NewScoped(bytes, Len(bytes))
            IN /\ op' = "DecodeVarSeries"
               /\ inp' = [elem |-> elem, bytes |-> bytes, length |-> length]
               /\ out' = DecodeVarSeries(elem, length, dr)
    /\ UNCHANGED <<readers, stream, last>>

NextSeries ==
    \/ CallEncodeVarSeries
    \/ CallDecodeEncoded
    \/ CallDecodeVarSlice
    \/ CallDecodeVarSeries

SpecSeries == Init /\ [][NextSeries]_vars

(***************************************************************************)
(* Properties of the variable-size series.                                 *)
(***************************************************************************)
\* the j-th offset word of an input (j counts from 1), read independently
\* of the decoder
WireOffset(bytes, j) ==
    Uint(SubSeq(bytes, BYTES_PER_LENGTH_OFFSET * (j - 1) + 1, BYTES_PER_LENGTH_OFFSET * j))

\* the first n offset words of an input are non-decreasing and start at 4n
WellFormedOffsets(bytes, n) ==
    /\ n > 0 => WireOffset(bytes, 1) = BYTES_PER_LENGTH_OFFSET * n
    /\ \A j \in 1..(n - 1) : WireOffset(bytes, j) <= WireOffset(bytes, j + 1)

\* C1: a list of N <= limit variable-size elements encoded by EncodeVarSeries
\* and decoded by DecodeVarSlice in a scope of exactly the encoded length
\* decodes without error to the same N elements in the same order.
RoundTripVarSeries ==
    (op = "DecodeEncoded" /\ Len(inp.vs) <= inp.limit) =>
        (~out.err /\ out.val = inp.vs)

\* a full list of containers has gone through the round trip
RoundTripVarSeriesWitness ==
    /\ op = "DecodeEncoded"
    /\ inp.elem = "CV"
    /\ Len(inp.vs) = MaxSeriesLen
    /\ inp.limit = MaxSeriesLen
    /\ Len(inp.vs[1][2]) > 0
    /\ ~out.err

\* C4: when DecodeVarSeries (N given) or DecodeVarSlice (N = first offset / 4)
\* succeeds, the N offsets of the input are non-decreasing and the first is
\* 4 * N; an input with a decreasing adjacent pair of offsets or a first
\* offset other than 4 * N is rejected.
OffsetMonotonicity ==
    /\ op = "DecodeVarSeries" =>
          /\ ~out.err => WellFormedOffsets(inp.bytes, inp.length)
          /\ (/\ Len(inp.bytes) >= BYTES_PER_LENGTH_OFFSET * inp.length
              /\ ~WellFormedOffsets(inp.bytes, inp.length)) => out.err
    /\ op \in {"DecodeVarSlice", "DecodeEncoded"} =>
          /\ ~out.err => WellFormedOffsets(inp.bytes, Len(out.val))
          /\ Len(inp.bytes) >= BYTES_PER_LENGTH_OFFSET =>
                LET n == WireOffset(inp.bytes, 1) \div BYTES_PER_LENGTH_OFFSET IN
                (/\ Len(inp.bytes) >= BYTES_PER_LENGTH_OFFSET * n
                 /\ ~WellFormedOffsets(inp.bytes, n)) => out.err

\* a vector of two elements with a non-empty first element has been accepted
OffsetMonotonicityWitness ==
    /\ op = "DecodeVarSeries"
    /\ inp.length = 2
    /\ ~out.err
    /\ WireOffset(inp.bytes, 2) > WireOffset(inp.bytes, 1)

\* C8: ReadVarSliceOffsets derives N = first offset / 4 and fails when the
\* first offset is no multiple of 4, exceeds bytes_len, or gives N > limit;
\* a list of exactly limit elements is accepted, one of limit + 1 elements
\* rejected; an input of zero bytes is the empty list and nothing is read.
FirstOffsetValidation ==
    /\ op = "DecodeVarSlice" =>
          IF Len(inp.bytes) = 0
          THEN ~out.err /\ out.val = <<>> /\ out.dr.i = 0
          ELSE IF Len(inp.bytes) < BYTES_PER_LENGTH_OFFSET THEN out.err
          ELSE LET first == WireOffset(inp.bytes, 1) IN
               /\ ~out.err => Len(out.val) = first \div BYTES_PER_LENGTH_OFFSET
               /\ first % BYTES_PER_LENGTH_OFFSET # 0 => out.err
               /\ first > Len(inp.bytes) => out.err
               /\ first \div BYTES_PER_LENGTH_OFFSET > inp.limit => out.err
    /\ op = "DecodeEncoded" =>
          /\ Len(inp.vs) = inp.limit => ~out.err /\ Len(out.val) = inp.limit
          /\ Len(inp.vs) = inp.limit + 1 => out.err /\ out.why = "limit"

\* a drawn input of two offsets has been rejected for its limit of one
FirstOffsetValidationWitness ==
    /\ op = "DecodeVarSlice"
    /\ Len(inp.bytes) >= 2 * BYTES_PER_LENGTH_OFFSET
    /\ WireOffset(inp.bytes, 1) = 2 * BYTES_PER_LENGTH_OFFSET
    /\ inp.limit = 1
    /\ out.err
    /\ out.why = "limit"

(***************************************************************************)
(* The calls of the handlers: a value is sized and encoded, and the bytes  *)
(* produced, as they are or with one of them changed, dropped or added,    *)
(* are decoded in a scope of their length.                                 *)
(***************************************************************************)
ContainerIds == {"CE", "CF", "CB", "CS", "CV", "CI", "CN", "C2", "CX"}
SeriesIds == {"LL", "VL"}

\* the value of the example {a: u32 = 42, b: List[u8] = [7, 8, 9]}
ExampleValues(id) == IF id = "CV" THEN {<<42, <<7, 8, 9>>>>} ELSE {}

\* bytes with the p-th byte raised by one (p in 1..Len), with a byte added
\* (p = Len + 1), without the last byte (p = Len + 2), or unchanged (p = 0)
Perturb(bytes, p) ==
    IF p = 0 THEN bytes
    ELSE IF p <= Len(bytes) THEN [bytes EXCEPT ![p] = (@ + 1) % 256]
    ELSE IF p = Len(bytes) + 1 THEN Append(bytes, 1)
    ELSE SubSeq(bytes, 1, Len(bytes) - 1)

Perturbations(bytes) ==
    {p \in 0..(Len(bytes) + 2) : p = Len(bytes) + 2 => Len(bytes) > 0}

CallEncode ==
    /\ op = "init"
    /\ \E id \in ContainerIds \cup SeriesIds :
         \E v \in Values(id) \cup ExampleValues(id) :
            /\ op' = "Encode"
            /\ inp' = [id |-> id, v |-> v]
            /\ out' = Bind(Encode(id, GetPooledBuffer, v), LAMBDA eb :
                          [bytes |-> eb.buffer, forward |-> eb.forward,
                           size |-> SizeOf(id, v)])
    /\ UNCHANGED <<readers, stream, last>>

CallDecode ==
    /\ op = "Encode"
    /\ \E p \in Perturbations(out.bytes), fuzz \in BOOLEAN :
         /\ fuzz => inp.id \in ContainerIds
         /\ op' = "Decode"
         /\ inp' = [id |-> inp.id, v |-> inp.v, bytes |-> Perturb(out.bytes, p),
                    p |-> p, fuzz |-> fuzz]
         /\ out' = Bind(NewScoped(Perturb(out.bytes, p), Len(Perturb(out.bytes, p))),
                        LAMBDA dr :
                            Decode(inp.id, IF fuzz THEN EnableFuzzMode(dr) ELSE dr))
    /\ UNCHANGED <<readers, stream, last>>

CallDecodeVarSeriesFuzzMode ==
    /\ op = "init"
    /\ \E elem \in {"Lbool", "CB"}, length \in 0..MaxWords :
         \E bytes \in SeqsUpTo(TailBytes, MaxTail + 2) :
            /\ op' = "DecodeVarSeriesFuzzMode"
            /\ inp' = [elem |-> elem, bytes |-> bytes, length |-> length]
            /\ out' = DecodeVarSeriesFuzzMode(elem, length, NewScoped(bytes, Len(bytes)))
    /\ UNCHANGED <<readers, stream, last>>

NextHandlers ==
    \/ CallEncode
    \/ CallDecode
    \/ CallDecodeVarSeriesFuzzMode

SpecHandlers == Init /\ [][NextHandlers]_vars

(***************************************************************************)
(* Properties of the container handler.                                    *)
(***************************************************************************)
IsContainer(id) == Handler(id).kind = "container"

\* the bytes the encodings of the variable-size fields from k on add up to
RECURSIVE VarFieldBytes(_, _, _)
VarFieldBytes(fields, v, k) ==
    IF k > Len(fields) THEN 0
    ELSE (IF IsFixed(fields[k]) THEN 0 ELSE SizeOf(fields[k], v[k]))
         + VarFieldBytes(fields, v, k + 1)

\* C2: for every container handler and value v, SizeOf(v) is fixed_len plus
\* the sum of SizeOf over the variable-size fields, and it is the number of
\* bytes Encode(v) has put in the output once the forward queue is flushed.
ContainerSizeEquality ==
    (op = "Encode" /\ IsContainer(inp.id)) =>
        /\ out.forward = <<>>
        /\ out.size = Len(out.bytes)
        /\ out.size = NewSSZContainer(Handler(inp.id).fields).fixedLen
                      + VarFieldBytes(Handler(inp.id).fields, inp.v, 1)

\* a container with fixed and variable fields has been sized and encoded
ContainerSizeEqualityWitness ==
    /\ op = "Encode"
    /\ inp.id = "C2"
    /\ Len(inp.v[1]) > 0
    /\ Len(inp.v[3]) > 0
    /\ out.size = 9 + Len(inp.v[1]) + Len(inp.v[3])

\* The fields from k on lie in bytes as the layout says: pos bytes of the
\* fixed region are behind, next is where the next payload starts.  A fixed
\* field is inline, a variable field is an offset word holding next and its
\* payload is at next; at the end the fixed region is fixedLen bytes long
\* and the payloads reach the end of bytes.
RECURSIVE LaidOut(_, _, _, _, _, _, _)
FieldLaidOut(fields, v, bytes, fixedLen, k, pos, next, e) ==
    IF IsFixed(fields[k])
    THEN /\ pos + Len(e) <= Len(bytes)
         /\ SubSeq(bytes, pos + 1, pos + Len(e)) = e
         /\ LaidOut(fields, v, bytes, fixedLen, k + 1, pos + Len(e), next)
    ELSE /\ pos + BYTES_PER_LENGTH_OFFSET <= Len(bytes)
         /\ Uint(SubSeq(bytes, pos + 1, pos + BYTES_PER_LENGTH_OFFSET)) = next
         /\ next + Len(e) <= Len(bytes)
         /\ SubSeq(bytes, next + 1, next + Len(e)) = e
         /\ LaidOut(fields, v, bytes, fixedLen, k + 1, pos + BYTES_PER_LENGTH_OFFSET,
                    next + Len(e))

LaidOut(fields, v, bytes, fixedLen, k, pos, next) ==
    IF k > Len(fields) THEN pos = fixedLen /\ next = Len(bytes)
    ELSE FieldLaidOut(fields, v, bytes, fixedLen, k, pos, next,
                      EncodeBytes(fields[k], v[k]))

\* C3: the encoding of a variable-size container is a fixed region of
\* fixed_len bytes (fixed fields inline in declaration order, a 4-byte offset
\* per variable field) followed by the payloads of the variable fields in
\* declaration order; the first offset is fixed_len, each later one the
\* previous offset plus the size of the previous payload;
\* {a: u32 = 42, b: [7, 8, 9]} has offset 8 and 11 bytes.
ContainerWireLayout ==
    (op = "Encode" /\ IsContainer(inp.id) /\ ~IsFixed(inp.id)) =>
        /\ LaidOut(Handler(inp.id).fields, inp.v, out.bytes,
                   NewSSZContainer(Handler(inp.id).fields).fixedLen, 1, 0,
                   NewSSZContainer(Handler(inp.id).fields).fixedLen)
        /\ (inp.id = "CV" /\ inp.v = <<42, <<7, 8, 9>>>>) =>
              out.bytes = <<42, 0, 0, 0, 8, 0, 0, 0, 7, 8, 9>>

\* the example container has been encoded
ContainerWireLayoutWitness ==
    /\ op = "Encode"
    /\ inp.id = "CV"
    /\ inp.v = <<42, <<7, 8, 9>>>>
    /\ Len(out.bytes) = 11

\* C5 as stated: after a successful decode of a variable series or of a
\* container in a scope of size n the index is n (index = max).
ScopeExactnessAnyComposite ==
    (op = "Decode" /\ ~inp.fuzz /\ ~out.err) => out.dr.i = out.dr.max

\* C5, for variable-size composites: after a successful decode, outside fuzz
\* mode, of a variable series or of a container with a variable-size field
\* in a scope of size n, the index is n; otherwise the decode fails.
ScopeExactness ==
    (op = "Decode" /\ ~inp.fuzz /\ ~IsFixed(inp.id) /\ ~out.err) =>
        /\ out.dr.i = out.dr.max
        /\ out.dr.max = Len(inp.bytes)

\* a container with a variable field has been decoded from bytes that are
\* not the ones encoded
ScopeExactnessWitness ==
    /\ op = "Decode"
    /\ ~inp.fuzz
    /\ inp.id = "C2"
    /\ inp.p > 0
    /\ ~out.err
    /\ out.dr.i = Len(inp.bytes)
    /\ Len(inp.bytes) > 9

\* C7: when the decode of an element or field in a child scope fails, the
\* index of the parent reader is what it was when the child scope was
\* created, whatever the child has consumed.
ChildFailureKeepsParentIndex ==
    (op \in {"Decode", "DecodeVarSeriesFuzzMode"} /\ out.err /\ out.why = "elem") =>
        out.dr.i = out.at

\* the child of a field behind the fixed region has failed after it had
\* consumed bytes
ChildFailureKeepsParentIndexWitness ==
    /\ op = "Decode"
    /\ out.err
    /\ out.why = "elem"
    /\ out.at > 0
    /\ out.used > 0

(***************************************************************************)
(* The reader on its own: a top-level reader over an input, the scopes     *)
(* carved from it and from each other, and any sequence of Read, Skip,     *)
(* Scope and UpdateIndexFromScoped on them.  readers[r].parent is the      *)
(* reader r was carved from (0 for the top-level reader); stream is what   *)
(* the io.Reader they all share still holds.  last is the call made last:  *)
(* its name, the reader r it was made on, its argument k, whether it       *)
(* failed, the reader as it was before (was) and the number n of calls.    *)
(***************************************************************************)
ReadCounts == {0, 1, 2}
SkipCounts == {1, MaxUint}
ScopeCounts == {0, 2, MaxUint}

\* the reader r of the state as a DecodingReader over the shared input
AsReader(r) ==
    [input |-> stream, i |-> readers[r].i, max |-> readers[r].max,
     fuzzMode |-> FALSE]

Called(name, r, k, err) ==
    [op |-> name, r |-> r, k |-> k, err |-> err, was |-> readers[r],
     n |-> last.n + 1]

MoreCalls == last.n < MaxSteps

CallNewDecodingReader ==
    /\ op = "init"
    /\ \E n \in 0..MaxInput :
         /\ stream' = [j \in 1..n |-> 1]
         /\ readers' = <<[i |-> NewDecodingReader(stream').i,
                          max |-> NewDecodingReader(stream').max, parent |-> 0]>>
    /\ last' = [op |-> "NewDecodingReader", r |-> 1, k |-> 0, err |-> FALSE,
                was |-> readers'[1], n |-> 0]
    /\ op' = "reader"
    /\ UNCHANGED <<inp, out>>

CallRead ==
    /\ op = "reader"
    /\ MoreCalls
    /\ \E r \in DOMAIN readers, k \in ReadCounts :
         Bind(Read(AsReader(r), k), LAMBDA res :
            /\ readers' = [readers EXCEPT ![r].i = res.dr.i]
            /\ stream' = res.dr.input
            /\ last' = Called("Read", r, k, res.err))
    /\ UNCHANGED <<op, inp, out>>

CallSkip ==
    /\ op = "reader"
    /\ MoreCalls
    /\ \E r \in DOMAIN readers, k \in SkipCounts :
         Bind(Skip(AsReader(r), k), LAMBDA res :
            /\ readers' = [readers EXCEPT ![r].i = res.dr.i]
            /\ stream' = res.dr.input
            /\ last' = Called("Skip", r, k, res.err))
    /\ UNCHANGED <<op, inp, out>>

CallScope ==
    /\ op = "reader"
    /\ MoreCalls
    /\ \E r \in DOMAIN readers, k \in ScopeCounts :
         Bind(Scope(AsReader(r), k), LAMBDA res :
            /\ res.err \/ Len(readers) < MaxReaders
            /\ readers' = IF res.err THEN readers
                          ELSE Append(readers, [i |-> res.dr.i, max |-> res.dr.max,
                                                parent |-> r])
            /\ last' = Called("Scope", r, k, res.err))
    /\ UNCHANGED <<op, inp, out, stream>>

CallUpdateIndexFromScoped ==
    /\ op = "reader"
    /\ MoreCalls
    /\ \E r \in DOMAIN readers, c \in DOMAIN readers :
         /\ readers[c].parent = r
         /\ readers' = [readers EXCEPT
                          ![r].i = UpdateIndexFromScoped(AsReader(r), AsReader(c)).i]
         /\ last' = Called("UpdateIndexFromScoped", r, c, FALSE)
    /\ UNCHANGED <<op, inp, out, stream>>

NextReader ==
    \/ CallNewDecodingReader
    \/ CallRead
    \/ CallSkip
    \/ CallScope
    \/ CallUpdateIndexFromScoped

SpecReader == Init /\ [][NextReader]_vars

\* C6: Read of k bytes and Skip(k) fail and leave the index as it was when
\* index + k > max; Scope(n) fails when n > max - index and otherwise gives
\* a child with index 0 and max n; so index <= max holds for every reader
\* after any sequence of Read, Skip, Scope and UpdateIndexFromScoped(child)
\* with child carved from that reader.
ScopeBoundEnforcement ==
    /\ \A r \in DOMAIN readers : readers[r].i <= readers[r].max
    /\ (op = "reader" /\ last.op \in {"Read", "Skip"}
                      /\ last.was.i + last.k > last.was.max) =>
          (last.err /\ readers[last.r].i = last.was.i)
    /\ (op = "reader" /\ last.op = "Scope") =>
          IF last.k > last.was.max - last.was.i THEN last.err
          ELSE /\ ~last.err
               /\ readers[Len(readers)].i = 0
               /\ readers[Len(readers)].max = last.k

(***************************************************************************)
(* The list of basic elements decoded from drawn bytes.                    *)
(***************************************************************************)
BasicListIds == {"Lu8", "Lu16", "Lbool"}

\* most bytes of a drawn input: more than limit elements of two bytes
MaxListBytes == 2 * MaxListLen + 3

CallDecodeBasicList ==
    /\ op = "init"
    /\ \E id \in BasicListIds :
         \E bytes \in SeqsUpTo({1, 2}, MaxListBytes) :
            /\ op' = "DecodeBasicList"
            /\ inp' = [id |-> id, bytes |-> bytes, limit |-> Limit(id)]
            /\ out' = Decode(id, NewScoped(bytes, Len(bytes)))
    /\ UNCHANGED <<readers, stream, last>>

NextList == CallDecodeBasicList

SpecList == Init /\ [][NextList]_vars

\* C9: a list of elements of fixed size s decoded in a scope of r remaining
\* bytes has N = r / s elements; the decode fails when r is no multiple of s
\* or N > limit, and otherwise yields exactly N elements.
FixedElementListDecode ==
    op = "DecodeBasicList" =>
        LET s == FixedLen(Handler(inp.id).elem)
            r == Len(inp.bytes)
        IN /\ r % s # 0 => out.err
           /\ r \div s > inp.limit => out.err
           /\ ~out.err => Len(out.val) = r \div s

(***************************************************************************)
(* htr: hash tree roots.  A node of a tree is 32 bytes.  The hash function *)
(* is injected by the caller; Hash stands for it.                          *)
(***************************************************************************)
Zeros(n) == [j \in 1..n |-> 0]

\* data right-padded with zeros to 32 bytes
Chunk(data) == data \o Zeros(32 - Len(data))

\* a number that depends on every byte of b[lo..hi] and on its place
RECURSIVE Fold(_, _, _)
Fold(b, lo, hi) ==
    IF lo > hi THEN 0
    ELSE IF lo = hi THEN (b[lo] * (3 * lo + 1)) % 9973
    ELSE (Fold(b, lo, (lo + hi) \div 2) + Fold(b, (lo + hi) \div 2 + 1, hi)) % 9973

\* h(left || right)
Hash(left, right) ==
    Chunk(PutUint(1 + Fold(left \o right, 1, Len(left) + Len(right)), 2))

RECURSIVE CeilLog2(_)
CeilLog2(p) == IF p <= 1 THEN 0 ELSE 1 + CeilLog2((p + 1) \div 2)

RECURSIVE Pow2(_)
Pow2(d) == IF d = 0 THEN 1 ELSE 2 * Pow2(d - 1)

\* the root of a layer of 2^d nodes
RECURSIVE MerkleRoot(_, _)
MerkleRoot(nodes, d) ==
    IF d = 0 THEN nodes[1]
    ELSE MerkleRoot([j \in 1..(Len(nodes) \div 2) |->
                        Hash(nodes[2 * j - 1], nodes[2 * j])], d - 1)

\* merkle.Merkleize(h, count, limit, leaf): leaves holds leaf(0) .. leaf(count - 1);
\* the places from count on hold the zero hash
Merkleize(count, limit, leaves) ==
    IF limit = 0 THEN Zeros(32)
    ELSE MerkleRoot([j \in 1..Pow2(CeilLog2(limit)) |->
                        IF j <= count THEN leaves[j] ELSE Zeros(32)],
                    CeilLog2(limit))

RECURSIVE HashTreeRoot(_, _)

\* SSZContainer.SigningRoot that leaves the count of the leaves as it is
SSZContainerRootOfAllFields(id, v) ==
    LET fields == Handler(id).fields IN
    Merkleize(Len(fields), Len(fields),
              [j \in 1..Len(fields) |-> HashTreeRoot(fields[j], v[j])])

SSZContainerHashTreeRoot(id, v) ==
    LET fields == Handler(id).fields IN
    Merkleize(Len(fields), Len(fields),
              [j \in 1..Len(fields) |-> HashTreeRoot(fields[j], v[j])])

\* leaf(i) is only ever asked for i < leafCount
SSZContainerSigningRoot(id, v) ==
    LET fields == Handler(id).fields
        leafCount == IF Len(fields) # 0 THEN Len(fields) - 1 ELSE 0
    IN Merkleize(leafCount, leafCount,
                 [j \in 1..leafCount |-> HashTreeRoot(fields[j], v[j])])

\* the root of a basic value is its serialization in a chunk
HashTreeRoot(id, v) ==
    LET h == Handler(id) IN
    CASE h.kind = "basic" -> Chunk(PutUint(v, h.len))
      [] h.kind = "container" -> SSZContainerHashTreeRoot(id, v)

RootIds == {"CE", "CU", "CF", "CB", "C3", "CQ", "CC", "CS"}

\* the values of the example: a container of three unsigned integers
RootExamples(id) == IF id = "CS" THEN {<<1, 2, 3>>, <<1, 2, 4>>} ELSE {}

RootValues(id) == Values(id) \cup RootExamples(id)

\* a sequence of field values without the last one
Front(fs) == SubSeq(fs, 1, Len(fs) - 1)

\* the roots of a value v and the signing root of a value w that differs
\* from v in the last field at most
CallSigningRoot ==
    /\ op = "init"
    /\ \E id \in RootIds :
         \E v \in RootValues(id), w \in RootValues(id) :
            /\ Front(v) = Front(w)
            /\ op' = "SigningRoot"
            /\ inp' = [id |-> id, v |-> v, w |-> w]
            /\ out' = [htr |-> HashTreeRoot(id, v),
                       sr |-> SSZContainerSigningRoot(id, v),
                       srw |-> SSZContainerSigningRoot(id, w)]
    /\ UNCHANGED <<readers, stream, last>>

NextRoot == CallSigningRoot

SpecRoot == Init /\ [][NextRoot]_vars

\* C10: for a container with at least one field SigningRoot(v) is the
\* Merkleization, with leaf_count = padded_count = field_count - 1, of the
\* hash tree roots of the first field_count - 1 fields in declaration
\* order, so it does not depend on the last field; for a container with no
\* fields the leaf count is 0.
SigningRootContract ==
    op = "SigningRoot" =>
        LET fields == Handler(inp.id).fields
            n == Len(fields)
        IN /\ n >= 1 =>
                 out.sr = Merkleize(n - 1, n - 1,
                              [j \in 1..(n - 1) |-> HashTreeRoot(fields[j], inp.v[j])])
           /\ out.sr = out.srw
           /\ n = 0 => out.sr = Merkleize(0, 0, <<>>)
           /\ (inp.id = "CS" /\ inp.v = <<1, 2, 3>>) =>
                 out.sr = Hash(Chunk(PutUint(1, 4)), Chunk(PutUint(2, 4)))

\* the signing roots of the example and of a value with another last field
SigningRootContractWitness ==
    /\ op = "SigningRoot"
    /\ inp.id = "CS"
    /\ inp.v = <<1, 2, 3>>
    /\ inp.w = <<1, 2, 4>>
    /\ out.sr # out.htr

(***************************************************************************)
(* SSZPtr: the handler of a pointer to a value of the handler elemSSZ.     *)
(* Host memory is a function from addresses to cells; a cell holds either  *)
(* an address (ptr) or a value of some handler.  Address 0 is nil.         *)
(***************************************************************************)
\* depth of calls the stack of a goroutine has room for
MaxStackDepth == 3

PtrCell(to) == [ptr |-> TRUE, to |-> to, val |-> 0]
ValCell(v) == [ptr |-> FALSE, to |-> 0, val |-> v]

\* memory with a pointer at address 1 to the value v at address 2
PtrMemory(v) == <<PtrCell(2), ValCell(v)>>

\* *(*uintptr)(p): the word at p read as an address.  Where the cell holds
\* no address the read reinterprets the bytes of a value (and the bytes
\* after it): the word it yields is not determined, it is given as word.
Deref(mem, p, word) == IF mem[p].ptr THEN mem[p].to ELSE word

SSZPtrFixedLen(elemSSZ) == FixedLen(elemSSZ)

SSZPtrIsFixed(elemSSZ) == IsFixed(elemSSZ)

SSZPtrEncode(elemSSZ, eb, mem, p) ==
    Bind(Deref(mem, p, 0), LAMBDA innerPtr : Encode(elemSSZ, eb, mem[innerPtr].val))

\* the decoded value is stored at innerPtr
SSZPtrDecode(elemSSZ, dr, mem, p) ==
    Bind(Deref(mem, p, 0), LAMBDA innerPtr :
        [res |-> Decode(elemSSZ, dr), stored |-> innerPtr])

\* what a call of HashTreeRoot ended with
Returned(root) == [status |-> "returned", root |-> root, depth |-> 0]
Crashed(status, depth) == [status |-> status, root |-> <<>>, depth |-> depth]

\* SSZPtr.HashTreeRoot calls v.HashTreeRoot, that is itself, on innerPtr.
\* words[depth] is the word a read of a cell without an address yields at
\* that depth; a nil or unmapped address faults, and the calls end when the
\* stack is exhausted.
RECURSIVE SSZPtrHashTreeRoot(_, _, _, _, _)
SSZPtrHashTreeRoot(elemSSZ, mem, p, words, depth) ==
    IF depth > MaxStackDepth THEN Crashed("stack overflow", depth - 1)
    ELSE IF p \notin DOMAIN mem THEN Crashed("fault", depth)
    ELSE Bind(Deref(mem, p, words[depth]), LAMBDA innerPtr :
             SSZPtrHashTreeRoot(elemSSZ, mem, innerPtr, words, depth + 1))

\* the handlers pointed to
PtrElems == {"u8", "u16", "bool", "CU", "CF", "CB", "C3"}

\* words a read of memory that holds no address may yield
Words == 0..3

CallPtrFixedLen ==
    /\ op = "init"
    /\ \E id \in PtrElems \cup ContainerIds :
          /\ op' = "Ptr.FixedLen"
          /\ inp' = [id |-> id]
          /\ out' = SSZPtrFixedLen(id)
    /\ UNCHANGED <<readers, stream, last>>

CallPtrIsFixed ==
    /\ op = "init"
    /\ \E id \in PtrElems \cup ContainerIds :
          /\ op' = "Ptr.IsFixed"
          /\ inp' = [id |-> id]
          /\ out' = SSZPtrIsFixed(id)
    /\ UNCHANGED <<readers, stream, last>>

CallPtrEncode ==
    /\ op = "init"
    /\ \E id \in PtrElems \cup ContainerIds :
         \E v \in Values(id) :
            /\ op' = "Ptr.Encode"
            /\ inp' = [id |-> id, v |-> v, mem |-> PtrMemory(v), p |-> 1]
            /\ out' = SSZPtrEncode(id, GetPooledBuffer, PtrMemory(v), 1)
    /\ UNCHANGED <<readers, stream, last>>

\* decodes the encoding of v, perturbed, into storage that holds w
CallPtrDecode ==
    /\ op = "init"
    /\ \E id \in PtrElems :
         \E v \in Values(id), w \in Values(id) :
           \E q \in Perturbations(EncodeBytes(id, v)) :
              /\ op' = "Ptr.Decode"
              /\ inp' = [id |-> id, bytes |-> Perturb(EncodeBytes(id, v), q),
                         mem |-> PtrMemory(w), p |-> 1]
              /\ out' = SSZPtrDecode(id,
                            NewScoped(Perturb(EncodeBytes(id, v), q),
                                      Len(Perturb(EncodeBytes(id, v), q))),
                            PtrMemory(w), 1)
    /\ UNCHANGED <<readers, stream, last>>

CallPtrHashTreeRoot ==
    /\ op = "init"
    /\ \E id \in PtrElems :
         \E v \in Values(id), words \in [1..MaxStackDepth -> Words] :
            /\ op' = "Ptr.HashTreeRoot"
            /\ inp' = [id |-> id, v |-> v, mem |-> PtrMemory(v), p |-> 1,
                       words |-> words]
            /\ out' = SSZPtrHashTreeRoot(id, PtrMemory(v), 1, words, 1)
    /\ UNCHANGED <<readers, stream, last>>

NextPtr ==
    \/ CallPtrFixedLen
    \/ CallPtrIsFixed
    \/ CallPtrEncode
    \/ CallPtrDecode
    \/ CallPtrHashTreeRoot

SpecPtr == Init /\ [][NextPtr]_vars

\* C11: every operation of the pointer handler dereferences the pointer
\* once and ends with the result of the inner handler on the value pointed
\* to; HashTreeRoot of a pointer returns and equals the inner handler's
\* hash tree root of that value.
PointerTransparency ==
    /\ op = "Ptr.FixedLen" => out = FixedLen(inp.id)
    /\ op = "Ptr.IsFixed" => out = IsFixed(inp.id)
    /\ op = "Ptr.Encode" => out.buffer = EncodeBytes(inp.id, inp.v)
    /\ op = "Ptr.Decode" =>
          /\ out.res = DecodeBytes(inp.id, inp.bytes)
          /\ out.stored = inp.mem[inp.p].to
    /\ op = "Ptr.HashTreeRoot" =>
          /\ out.status = "returned"
          /\ out.root = HashTreeRoot(inp.id, inp.v)

(***************************************************************************)
(* NewSSZContainer on fields whose handlers answer with drawn lengths,     *)
(* those of malformed handlers included.                                   *)
(***************************************************************************)
\* number of fields of the containers constructed
MaxFields == 2

\* what the handler of a field may answer
FieldAnswers ==
    { [isFixed |-> f, fixedLen |-> x, minLen |-> mn, maxLen |-> mx,
       fuzzMinLen |-> mn, fuzzMaxLen |-> mx] :
          f \in BOOLEAN, x \in {0, 2}, mn \in {0, 2}, mx \in {2, 6} }

CallNewSSZContainer ==
    /\ op = "init"
    /\ \E answers \in SeqsUpTo(FieldAnswers, MaxFields) :
          /\ op' = "NewSSZContainer"
          /\ inp' = [answers |-> answers]
          /\ out' = NewSSZContainerOf([k \in 1..Len(answers) |-> k], answers)
    /\ UNCHANGED <<readers, stream, last>>

NextContainer == CallNewSSZContainer

SpecContainer == Init /\ [][NextContainer]_vars

\* sum of the numbers of a sequence
RECURSIVE SumSeq(_)
SumSeq(ns) == IF ns = <<>> THEN 0 ELSE Head(ns) + SumSeq(Tail(ns))

\* sum over the fields of part(field)
SumOver(answers, part(_)) == SumSeq([k \in 1..Len(answers) |-> part(answers[k])])

\* C12: NewSSZContainer rejects a field that is fixed-size with a fixed
\* length different from its min or max length; a constructed container is
\* fixed-size iff no field is variable-size, its fixed length is the sum of
\* (fixed ? fixed_len : 4), its min and max length the sums of
\* (fixed ? fixed_len : 4 + child min / max), and a fixed-size container has
\* fixed_len = min_len = max_len.
ContainerLengthInvariants ==
    op = "NewSSZContainer" =>
        LET fs == inp.answers IN
        /\ (\E k \in 1..Len(fs) :
               fs[k].isFixed /\ (fs[k].fixedLen # fs[k].minLen
                                    \/ fs[k].fixedLen # fs[k].maxLen))
              => out.err
        /\ ~out.err =>
              /\ out.isFixedLen <=> \A k \in 1..Len(fs) : fs[k].isFixed
              /\ out.fixedLen = SumOver(fs, LAMBDA f :
                     IF f.isFixed THEN f.fixedLen ELSE 4)
              /\ out.minLen = SumOver(fs, LAMBDA f :
                     IF f.isFixed THEN f.fixedLen ELSE 4 + f.minLen)
              /\ out.maxLen = SumOver(fs, LAMBDA f :
                     IF f.isFixed THEN f.fixedLen ELSE 4 + f.maxLen)
              /\ out.isFixedLen =>
                     (out.fixedLen = out.minLen /\ out.fixedLen = out.maxLen)

\* a container of a fixed-size and a variable-size field is constructed
ContainerLengthInvariantsWitness ==
    /\ op = "NewSSZContainer"
    /\ Len(inp.answers) = 2
    /\ inp.answers[1].isFixed
    /\ inp.answers[1].fixedLen = 2
    /\ ~inp.answers[2].isFixed
    /\ inp.answers[2].minLen < inp.answers[2].maxLen
    /\ ~out.err
    /\ out.minLen = 6
    /\ out.maxLen = 12

(***************************************************************************)
(* ptrutil: the slice header a list is decoded into.  Data is the address  *)
(* of the contents, 0 being nil.                                           *)
(***************************************************************************)
\* capacity of the slices the caller passes
MaxCap == 2

SliceHeader(len, cap, data) == [Len |-> len, Cap |-> cap, Data |-> data]

\* the header after AllocateSliceSpaceAndBind; newData is the address of
\* the contents reflect.MakeSlice allocated
AllocateSliceSpaceAndBind(pSh, length, newData) ==
    IF length = 0 THEN SliceHeader(0, 0, 0)
    ELSE SliceHeader(length, length, newData)

\* MakeSliceAllocFn(typ) and BytesAllocFn
SliceAllocFn(p, length, newData) == AllocateSliceSpaceAndBind(p, length, newData)

\* the header after MutateLenOrAllocNew
MutateLenOrAllocNew(header, length, newData) ==
    IF header.Cap < length THEN SliceAllocFn(header, length, newData)
    ELSE [header EXCEPT !.Len = length]

\* the header DecodeVarSlice leaves at p: untouched when the offsets are
\* rejected, else bound to len(offsets) elements
DecodeVarSliceHeader(minElemLen, bytesLen, limit, dr, header, newData) ==
    Bind(ReadVarSliceOffsets(minElemLen, bytesLen, limit, dr), LAMBDA o :
        IF o.err THEN header
        ELSE MutateLenOrAllocNew(header, Len(o.offsets), newData))

\* the slices a caller may pass: nil, empty, or with contents at address 1
Headers ==
    { SliceHeader(len, cap, data) :
         cap \in 0..MaxCap, len \in 0..MaxCap, data \in {0, 1} }

CallerHeaders == { h \in Headers : h.Len <= h.Cap /\ (h.Cap > 0 => h.Data # 0) }

\* a list of lists of bool decoded into a slice of the caller
CallDecodeVarSliceInto ==
    /\ op = "init"
    /\ \E header \in CallerHeaders, v \in Values("LL") :
         \E q \in {0, Len(EncodeBytes("LL", v)) + 2} \cap Perturbations(EncodeBytes("LL", v)) :
            LET bytes == Perturb(EncodeBytes("LL", v), q)
                dr == NewScoped(bytes, Len(bytes))
                elem == Handler("LL").elem
            IN /\ op' = "DecodeVarSliceInto"
               /\ inp' = [bytes |-> bytes, header |-> header]
               /\ out' = [res |-> DecodeVarSlice(elem, FixedLen(elem), GetBytesSpan(dr),
                                                 Limit("LL"), dr),
                          header |-> DecodeVarSliceHeader(FixedLen(elem), GetBytesSpan(dr),
                                                          Limit("LL"), dr, header, 2)]
    /\ UNCHANGED <<readers, stream, last>>

CallBytesAllocFn ==
    /\ op = "init"
    /\ \E header \in CallerHeaders, length \in 0..MaxCap :
          /\ op' = "BytesAllocFn"
          /\ inp' = [header |-> header, length |-> length]
          /\ out' = [header |-> SliceAllocFn(header, length, 2)]
    /\ UNCHANGED <<readers, stream, last>>

NextSlice ==
    \/ CallDecodeVarSliceInto
    \/ CallBytesAllocFn

SpecSlice == Init /\ [][NextSlice]_vars

\* C13: after a list decode that yields zero elements the slice header of
\* the caller has length 0, capacity 0 and a nil data pointer, whatever
\* its length and capacity were before.
EmptyListBindsEmptyHeader ==
    (op = "DecodeVarSliceInto" /\ ~out.res.err /\ out.res.val = <<>>)
        => out.header = SliceHeader(0, 0, 0)

(***************************************************************************)
(* SSZContainer.decodeVarSize on the encoding of a value and on inputs     *)
(* that differ from an encoding in one byte or in length; the outcome of   *)
(* the fixed pass is kept next to the outcome of the decode.               *)
(***************************************************************************)
CallDecodeVarSize ==
    /\ op = "init"
    /\ \E id \in ContainerIds :
         \E v \in Values(id) \cup ExampleValues(id) :
           \E q \in Perturbations(EncodeBytes(id, v)) :
              LET bytes == Perturb(EncodeBytes(id, v), q)
                  dr == NewScoped(bytes, Len(bytes))
                  c == NewSSZContainer(Handler(id).fields)
              IN /\ op' = "decodeVarSize"
                 /\ inp' = [id |-> id, bytes |-> bytes]
                 /\ out' = [fixed |-> decodeFixedPart(c, dr),
                            res |-> decodeVarSize(c, dr)]
    /\ UNCHANGED <<readers, stream, last>>

NextDecode == CallDecodeVarSize

SpecDecode == Init /\ [][NextDecode]_vars

\* the fixed-region advance after the first k fields
RECURSIVE FixedAdvance(_, _)
FixedAdvance(fields, k) ==
    IF k = 0 THEN 0
    ELSE FixedAdvance(fields, k - 1)
            + (IF IsFixed(fields[k]) THEN FixedLen(fields[k]) ELSE 4)

\* the places of the variable-size fields, in declaration order
VarFields(fields) ==
    SelectSeq([k \in 1..Len(fields) |-> k], LAMBDA k : ~IsFixed(fields[k]))

\* bytes lo + 1 .. hi of the input
Window(bytes, lo, hi) == SubSeq(bytes, lo + 1, hi)

\* C14: a container decode in a scope that starts at index 0 succeeds only
\* if (a) every field of the fixed pass ends at the expected fixed-region
\* advance and the pass ends at fixed_len, (b) as many offsets are
\* collected as there are variable-size fields, (c) the offsets do not
\* decrease, and (d) every dynamic field starts at its offset, the first at
\* fixed_len; the scope of dynamic field i is offsets[i+1] - offsets[i], and
\* max - offsets[i] for the last.
ContainerDecodeOffsetChecks ==
    (op = "decodeVarSize" /\ ~out.res.err) =>
        LET fields == Handler(inp.id).fields
            bytes == inp.bytes
            vf == VarFields(fields)
            n == Len(vf)
            offs == out.fixed.offsets
            end(i) == IF i < n THEN offs[i + 1] ELSE Len(bytes)
        IN /\ ~out.fixed.err
           /\ out.fixed.dr.i = FixedLen(inp.id)
           /\ FixedAdvance(fields, Len(fields)) = FixedLen(inp.id)
           /\ \A k \in 1..Len(fields) :
                 IsFixed(fields[k]) =>
                    Bind(DecodeBytes(fields[k],
                             Window(bytes, FixedAdvance(fields, k - 1),
                                    FixedAdvance(fields, k))),
                         LAMBDA r : ~r.err /\ r.val = out.res.val[k]
                                       /\ r.dr.i = FixedLen(fields[k]))
           /\ Len(offs) = n
           /\ \A i \in 1..n :
                 offs[i] = Uint(Window(bytes, FixedAdvance(fields, vf[i] - 1),
                                       FixedAdvance(fields, vf[i])))
           /\ \A i \in 1..(n - 1) : offs[i] <= offs[i + 1]
           /\ n > 0 => (offs[1] = FixedLen(inp.id) /\ offs[n] <= Len(bytes))
           /\ \A i \in 1..n :
                 Bind(DecodeBytes(fields[vf[i]], Window(bytes, offs[i], end(i))),
                      LAMBDA r : /\ ~r.err
                                 /\ r.val = out.res.val[vf[i]]
                                 /\ r.dr.i = end(i) - offs[i])

\* a container with two variable-size fields around a fixed-size one is
\* decoded, the first payload not being empty
ContainerDecodeOffsetChecksWitness ==
    /\ op = "decodeVarSize"
    /\ inp.id = "C2"
    /\ ~out.res.err
    /\ Len(out.fixed.offsets) = 2
    /\ out.fixed.offsets[1] < out.fixed.offsets[2]
    /\ out.fixed.offsets[2] < Len(inp.bytes)

(***************************************************************************)
(* Decoding in fuzz mode, round by round: readers[1] is the reader of the  *)
(* container or series, last the position in the loop over the fields or   *)
(* elements, with the child scopes offered so far.                         *)
(***************************************************************************)
\* length of the inputs decoded in fuzz mode
MaxFuzzBytes == 5

FuzzContainers == {"CF", "CB", "CC", "CV", "CI", "CN", "C2", "CX"}

FuzzElems == {"Lbool", "CB", "CI"}

FuzzInputs == SeqsUpTo(TailBytes, MaxFuzzBytes)

\* the loop has not yet run: lengthLeftOver is the need of all the parts
FuzzEntered(lengthLeftOver) ==
    [k |-> 1, lengthLeftOver |-> lengthLeftOver, err |-> FALSE, why |-> "ok",
     offered |-> <<>>, vals |-> <<>>]

EnterDecodeVarSizeFuzzmode ==
    /\ op = "init"
    /\ \E id \in FuzzContainers, bytes \in FuzzInputs :
          /\ op' = "fuzz"
          /\ inp' = [kind |-> "container", id |-> id, length |-> Len(Handler(id).fields),
                     elems |-> Handler(id).fields, bytes |-> bytes]
          /\ readers' = <<EnableFuzzMode(NewScoped(bytes, Len(bytes)))>>
          /\ last' = FuzzEntered(NewSSZContainer(Handler(id).fields).fuzzMinLen)
    /\ UNCHANGED <<out, stream>>

EnterDecodeVarSeriesFuzzMode ==
    /\ op = "init"
    /\ \E elem \in FuzzElems, length \in 0..MaxWords, bytes \in FuzzInputs :
          /\ op' = "fuzz"
          /\ inp' = [kind |-> "series", id |-> elem, length |-> length,
                     elems |-> [j \in 1..length |-> elem], bytes |-> bytes]
          /\ readers' = <<EnableFuzzMode(NewScoped(bytes, Len(bytes)))>>
          /\ last' = FuzzEntered(length * FuzzMinLen(elem))
    /\ UNCHANGED <<out, stream>>

\* one round of the loop of decodeVarSizeFuzzmode or DecodeVarSeriesFuzzMode
FuzzRound ==
    /\ op = "fuzz"
    /\ ~last.err
    /\ last.k <= Len(inp.elems)
    /\ LET dr == readers[1]
           elem == inp.elems[last.k]
           left == last.lengthLeftOver - FuzzMinLen(elem)
       IN Bind(fuzzField(dr, elem, left), LAMBDA r :
            /\ readers' = <<r.dr>>
            /\ last' = [k |-> last.k + 1, lengthLeftOver |-> left, err |-> r.err,
                        why |-> r.why,
                        offered |-> Append(last.offered,
                                       [span |-> GetBytesSpan(dr),
                                        scoped |-> fuzzScope(dr, left)]),
                        vals |-> Append(last.vals, r.val)])
    /\ UNCHANGED <<op, inp, out, stream>>

NextFuzz ==
    \/ EnterDecodeVarSizeFuzzmode
    \/ EnterDecodeVarSeriesFuzzMode
    \/ FuzzRound

SpecFuzz == Init /\ [][NextFuzz]_vars

\* the summed fuzz_min_len of the parts after part j
RestNeed(elems, j) ==
    SumSeq([m \in 1..(Len(elems) - j) |-> FuzzMinLen(elems[j + m])])

\* the decode as one call, on the reader the rounds started from
FuzzWhole ==
    Bind(EnableFuzzMode(NewScoped(inp.bytes, Len(inp.bytes))), LAMBDA dr :
        IF inp.kind = "container"
        THEN decodeVarSizeFuzzmode(NewSSZContainer(inp.elems), dr)
        ELSE DecodeVarSeriesFuzzMode(inp.id, inp.length, dr))

\* C15: in fuzz mode every field or element, in order, is given a child
\* scope of bytes_span minus the summed fuzz_min_len of the parts after
\* it; the decode fails as under budget when bytes_span is smaller than
\* that sum; whatever the parts before it consumed, every part after the
\* first is offered at least its own fuzz_min_len; every child scope has
\* fuzz mode enabled.
FuzzModeBudget ==
    op = "fuzz" =>
        /\ \A j \in 1..Len(last.offered) :
              LET o == last.offered[j]
                  need == RestNeed(inp.elems, j)
              IN /\ (o.span < need) <=> (o.scoped.err /\ o.scoped.why = "budget")
                 /\ o.span >= need =>
                       /\ ~o.scoped.err
                       /\ o.scoped.dr.i = 0
                       /\ o.scoped.dr.max = o.span - need
                       /\ o.scoped.dr.fuzzMode
                 /\ j > 1 =>
                       /\ ~o.scoped.err
                       /\ o.scoped.dr.max >= FuzzMinLen(inp.elems[j])
        /\ (last.err \/ last.k > Len(inp.elems)) =>
              /\ FuzzWhole.err = last.err
              /\ ~last.err => (FuzzWhole.val = last.vals /\ FuzzWhole.dr = readers[1])

\* a series of two containers of two bytes decoded from five bytes: both
\* elements are offered three bytes
FuzzModeBudgetWitness ==
    /\ op = "fuzz"
    /\ inp.kind = "series"
    /\ inp.id = "CB"
    /\ Len(inp.bytes) = 5
    /\ ~last.err
    /\ Len(last.offered) = 2
    /\ last.offered[1].scoped.dr.max = 3
    /\ last.offered[2].scoped.dr.max = 3
    /\ readers[1].i = 4

(***************************************************************************)
(* SSZContainer.Encode of a tree of containers, with the history of the    *)
(* buffers: out.log as left by the call on a fresh buffer.                 *)
(***************************************************************************)
EncodedTrees == {"CE", "CF", "CC", "CV", "CI", "CN", "C2", "CX", "CL", "CD"}

CallContainerEncode ==
    /\ op = "init"
    /\ \E id \in EncodedTrees :
         \E v \in Values(id) :
            /\ op' = "ContainerEncode"
            /\ inp' = [id |-> id, v |-> v]
            /\ out' = ContainerEncode(id, GetPooledBuffer, v)
    /\ UNCHANGED <<readers, stream, last>>

NextEncode == CallContainerEncode

SpecEncode == Init /\ [][NextEncode]_vars

\* how many entries before entry p say ev
Before(log, p, ev) == Cardinality({q \in 1..(p - 1) : log[q].ev = ev})

\* the temporary buffers open at entry p: 0 is the buffer of the caller
Level(log, p) == Before(log, p, "GetPooledBuffer") - Before(log, p, "WriteForward")

\* the calls of SSZContainer.Encode that have not returned at entry p
Depth(log, p) == Before(log, p, "Encode") - Before(log, p, "return")

\* the entry of the call of SSZContainer.Encode that entry p happens in
\* (0 for the outermost call)
Enclosing(log, p) ==
    LET calls == {q \in 1..(p - 1) :
                     log[q].ev = "Encode" /\ Depth(log, q) = Depth(log, p) - 1}
    IN IF calls = {} THEN 0 ELSE CHOOSE q \in calls : \A r \in calls : r <= q

\* C16 as stated: a nested container works on the forward queue of its
\* parent and does not flush; only the outermost composite of the call
\* chain flushes, after all of its fields have been written.
OnlyOutermostFlushes ==
    op = "ContainerEncode" =>
        \A p \in 1..Len(out.log) :
           /\ (out.log[p].ev = "Encode" /\ p > 1) =>
                 Level(out.log, p) = Level(out.log, Enclosing(out.log, p))
           /\ out.log[p].ev = "FlushForward" =>
                 (Enclosing(out.log, p) = 1 /\ p = Len(out.log) - 1)

\* C16: a nested fixed-size container works on the buffer, and so on the
\* forward queue, of its parent and does not flush; a nested variable-size
\* container works on a temporary buffer of its own, whose queue is empty
\* when it starts and which it flushes itself.  Every flush is made by the
\* variable-size container that was called on the stream, once, after all
\* of its fields have been written, and the stream then holds the fixed
\* region of that container and no payload.
ForwardQueueFlushing ==
    op = "ContainerEncode" =>
        LET log == out.log IN
        /\ out.forward = <<>>
        /\ \A p \in 1..Len(log) :
              /\ (log[p].ev = "Encode" /\ p > 1) =>
                    IF IsFixed(log[p].id)
                    THEN Level(log, p) = Level(log, Enclosing(log, p))
                    ELSE /\ Level(log, p) = Level(log, Enclosing(log, p)) + 1
                         /\ log[p].fwd = 0
              /\ (log[p].ev = "Encode" /\ ~IsFixed(log[p].id)) =>
                    Cardinality({q \in 1..Len(log) :
                        log[q].ev = "FlushForward" /\ Enclosing(log, q) = p}) = 1
              /\ log[p].ev = "FlushForward" =>
                    LET e == Enclosing(log, p) IN
                    /\ ~IsFixed(log[e].id)
                    /\ log[p + 1] = [ev |-> "return", id |-> log[e].id,
                                     buf |-> log[p].buf + log[p].fwd, fwd |-> 0]
                    /\ Level(log, p) = Level(log, e)
                    /\ log[p].buf = log[e].buf + FixedLen(log[e].id)

\* a container whose first field is a variable-size container with a
\* payload: the nested container flushes its own buffer, the outer one its
\* own
ForwardQueueFlushingWitness ==
    /\ op = "ContainerEncode"
    /\ inp.id = "CN"
    /\ Len(inp.v[1][2]) = 2
    /\ Cardinality({p \in 1..Len(out.log) : out.log[p].ev = "FlushForward"}) = 2
    /\ \E p \in 1..Len(out.log) :
          /\ out.log[p].ev = "FlushForward"
          /\ Level(out.log, p) = 1
          /\ out.log[p].fwd = 4

(***************************************************************************)
(* SSZBasicList.HashTreeRoot on a little-endian host: the leaves are       *)
(* windows of the memory of the slice.                                     *)
(***************************************************************************)
\* length of the lists hashed
MaxPackLen == 34

\* elemSSZ.ChunkPow: log2(32 / elem_size)
ChunkPow(elem) ==
    CASE Handler(elem).len = 1 -> 5
      [] Handler(elem).len = 2 -> 4
      [] Handler(elem).len = 4 -> 3

\* what a call of the leaf function ends with: a slice of bytes, or the
\* panic of the runtime for slice bounds out of range
LeafBytes(bytes) == [panic |-> FALSE, bytes |-> bytes]
LeafPanic == [panic |-> TRUE, bytes |-> <<>>]

\* the closure leaf of SSZBasicList.HashTreeRoot; data[s:dataLen] panics
\* when s > dataLen
leaf(data, pow, i) ==
    IF (i + 1) * Pow2(pow) > Len(data)
    THEN IF i * Pow2(pow) > Len(data) THEN LeafPanic
         ELSE LeafBytes(Chunk(SubSeq(data, i * Pow2(pow) + 1, Len(data))))
    ELSE LeafBytes(SubSeq(data, i * Pow2(pow) + 1, (i + 1) * Pow2(pow)))

\* Merkleize(h, uint32(sh.Len), leaf) asks for leaf(0) .. leaf(sh.Len - 1)
LeavesAsked(id, v) ==
    [j \in 1..Len(v) |->
        leaf(PackedBytes(v, Handler(Handler(id).elem).len),
             ChunkPow(Handler(id).elem), j - 1)]

SSZBasicListHashTreeRoot(id, v) ==
    Bind(LeavesAsked(id, v), LAMBDA leaves :
        IF \E j \in 1..Len(leaves) : leaves[j].panic
        THEN [panic |-> TRUE, leaves |-> leaves, root |-> <<>>]
        ELSE [panic |-> FALSE, leaves |-> leaves,
              root |-> Merkleize(Len(v), Len(v),
                                 [j \in 1..Len(leaves) |-> leaves[j].bytes])])

\* the lists hashed: n elements that depend on their place and on seed
PackedList(id, n, seed) ==
    [j \in 1..n |->
        CASE id = "Lbool" -> (seed * j) % 2
          [] id = "Lu8" -> (seed * j) % 256
          [] id = "Lu16" -> (257 * seed * j) % 65536]

CallBasicListHashTreeRoot ==
    /\ op = "init"
    /\ \E id \in BasicListIds, n \in 0..MaxPackLen, seed \in 1..3 :
          /\ op' = "BasicList.HashTreeRoot"
          /\ inp' = [id |-> id, v |-> PackedList(id, n, seed)]
          /\ out' = SSZBasicListHashTreeRoot(id, PackedList(id, n, seed))
    /\ UNCHANGED <<readers, stream, last>>

NextPack == CallBasicListHashTreeRoot

SpecPack == Init /\ [][NextPack]_vars

\* C17: leaf i of a list of basic elements is the 32-byte window
\* [32 i, 32 i + 32) of the packed element bytes, right-padded with zeros
\* when it overhangs the data; the windows of the leaves asked for are
\* disjoint and cover every data byte once, and no leaf asked for indexes
\* outside the data.
BasicListChunkPacking ==
    op = "BasicList.HashTreeRoot" =>
        LET data == PackedBytes(inp.v, Handler(Handler(inp.id).elem).len)
            upto(i) == IF 32 * i + 32 < Len(data) THEN 32 * i + 32 ELSE Len(data)
        IN /\ ~out.panic
           /\ Len(out.leaves) = (Len(data) + 31) \div 32
           /\ \A j \in 1..Len(out.leaves) :
                 /\ ~out.leaves[j].panic
                 /\ out.leaves[j].bytes
                       = Chunk(SubSeq(data, 32 * (j - 1) + 1, upto(j - 1)))

====
